---- MODULE Spec2Model ----
(***************************************************************************)
(* Job orchestration of the transcription service: the jobs table, the     *)
(* two executors that run a job's pipeline (the thread-pool executor of    *)
(* services/background_tasks.py and the Celery task of workers/tasks.py),  *)
(* and the queue API (priority, reorder, delete).                          *)
(***************************************************************************)
EXTENDS Integers, Sequences, FiniteSets, TLC

\* ------------------------------------------------------------------ bounds
MaxJobs == 3
MaxRunJobs == 2
MaxQueueJobs == 2
MaxFaultJobs == 2
MaxModels == 2
MaxClients == 2
MaxTasks == 2
MaxSockets == 2
MaxPublishers == 2
MaxEvents == 2
MaxTime == 3
MaxIntervals == 2
MaxThreads == 2
MaxCalls == 2
MaxChunk == 2
MaxSegments == 2
MaxSamples == 2
MaxDuration == 20
SampleRate == 2
TimeUnits == 10
MaxClock == 3
IdleTimeout == 1
MaxBuffer == 7
MaxLimit == 2
MaxReorderLen == 2

JobIds == 1..MaxJobs
BatchId == "batch-1"

\* ----------------------------------------------------------- program data
DefaultMaxConcurrentJobs == 2
DefaultPriority == 5
MinPriority == 1
MaxPriority == 10

PriorityInputs == {1, 5}
PriorityRequests == {0, 1, 11}
CallbackInputs == {<<>>, <<100>>, <<50, 100>>}

InProgress == {"processing", "transcribing", "diarizing", "synthesizing", "syncing"}
Terminal == {"completed", "failed", "cancelled"}
Reorderable == {"pending", "queued"}
JobStatus == {"pending", "queued"} \cup InProgress \cup Terminal

VARIABLES
    celery_available,     \* api/jobs.py CELERY_AVAILABLE
    max_concurrent_jobs,  \* settings.max_concurrent_jobs
    jobs,                 \* the jobs table: id -> row
    options,              \* the immutable processing options of each job
    next_id,              \* next job id to hand out (ids are creation-ordered)
    batches,              \* the job_batches table: id -> row
    pool_queue,           \* work queue of the ThreadPoolExecutor
    celery_queue,         \* broker queue of workers.tasks.process_job
    run,                  \* per job id: the pipeline run, if any
    progress_log,         \* per job id: last progress value broadcast, and whether
                          \* the values broadcast so far never decreased
    events,               \* (type, job) of every other event broadcast
    stages,               \* per job id: stages entered, in order
    req,                  \* the update_job_priority request in flight
    resp,                 \* last HTTP response of the api/queue.py handlers
    cancelled,            \* per job id: how delete_job met the job
    faults,               \* per job id: what the model lookups and adapters of its run did
                          \* other than succeed
    loaded,               \* per job id: the batch row its update_batch_progress
                          \* loaded and the values it assigned, until the commit
    models,               \* the models table: id -> row
    model_next_id,        \* next model id to hand out
    calls,                \* per client: the api/models.py request it has in flight
    tasks,                \* the download_model_task background tasks: id -> task
    mresp,                \* last HTTP response of the api/models.py handlers
    active_connections,   \* ConnectionManager.active_connections
    sockets,              \* per WebSocket: the state of its client
    bcast,                \* per publisher: its ConnectionManager.broadcast call
    received,             \* per WebSocket: the events sent to it, in order
    disconnects,          \* per socket, the calls of ConnectionManager.disconnect so far
    missed,               \* (socket, event) of every finished broadcast that sent
                          \* nothing to a socket connected all along
    sync_call,            \* a call of combine_with_timing: arguments and result
    diar_call,            \* a call of find_speaker_for_segment: arguments and result
    stream,               \* a StreamingTranscriber: audio_buffer, one level per second
                          \* of audio, and what the last process_audio_chunk returned
    mm                    \* services/model_manager.py: the global _manager, the
                          \* ModelManager objects, the calling threads, the models
                          \* loaded and returned so far

vars == <<celery_available, max_concurrent_jobs, jobs, options, next_id, batches,
          pool_queue, celery_queue, run, progress_log, events, stages, req, resp,
          cancelled, faults, loaded, models, model_next_id, calls, tasks, mresp,
          active_connections, sockets, bcast, received, missed, disconnects,
          diar_call, mm, stream, sync_call>>

\* the job side, the model registry side and the event side of the state
JobVars == <<celery_available, max_concurrent_jobs, jobs, options, next_id, batches,
             pool_queue, celery_queue, run, progress_log, events, stages, req, resp,
             cancelled, faults, loaded>>
RegVars == <<models, model_next_id, calls, tasks, mresp>>
BusVars == <<active_connections, sockets, bcast, received, missed, disconnects>>
MoreVars == <<diar_call, mm, stream, sync_call>>
others == <<RegVars, BusVars, MoreVars>>

ModelIds == 1..MaxModels
Clients == 1..MaxClients
TaskIds == 1..MaxTasks
NoCall == [op |-> "none"]
NoLoad == [then |-> -1]
NoSpeaker == "None"
Threads == 1..MaxThreads
CacheKeys == {"whisper:base:cpu:int8", "whisper:small:cpu:int8"}
NoManager == 0
NoTime == -1
NoProgressValue == -1
IdleThread == [pc |-> "idle", key |-> "", mgr |-> NoManager, calls |-> 0]
NoDiarCall == [diarization |-> <<>>, start |-> 0, end |-> 0, speaker |-> "unset"]
Sockets == 1..MaxSockets
Publishers == 1..MaxPublishers
NoBroadcast == [pc |-> "idle", n |-> 0, idx |-> 0, disconnected |-> {}, live |-> {}]

NoReq == [job |-> 0, priority |-> 0]
NoResp == [op |-> "none", code |-> 0, job |-> 0]
Idle == [pc |-> "idle", exec |-> "none"]
NoBatch == "none"
\* a path of the upload directory: <batch id>_<stem><ext> or <uuid><ext>
NoPath == [batch |-> NoBatch, file_id |-> 0, stem |-> "", ext |-> ""]
NoOptions == [enable_diarization |-> FALSE, enable_tts |-> FALSE, sync_tts_timing |-> FALSE,
              batch_id |-> NoBatch, original_path |-> NoPath]
NoProgress == [last |-> -1, monotone |-> TRUE]

Exists(j) == j \in DOMAIN jobs

\* ThreadPoolExecutor(max_workers=settings.max_concurrent_jobs or 2)
ExecutorWorkers ==
    IF max_concurrent_jobs = 0 THEN DefaultMaxConcurrentJobs ELSE max_concurrent_jobs

\* a pool in which a run that died in its except branch keeps its worker
EndedButDead == {"idle", "notfound", "done"}

Ended == {"idle", "notfound", "done", "dead"}
PoolActive == {j \in JobIds : run[j].exec = "pool" /\ run[j].pc \notin Ended}

\* the state of the service after start-up
InitService ==
    /\ celery_available \in BOOLEAN
    /\ max_concurrent_jobs \in 1..MaxLimit
    /\ jobs = <<>>
    /\ options = [j \in JobIds |-> NoOptions]
    /\ next_id = 1
    /\ batches = <<>>
    /\ pool_queue = <<>>
    /\ celery_queue = <<>>
    /\ run = [j \in JobIds |-> Idle]
    /\ progress_log = [j \in JobIds |-> NoProgress]
    /\ events = {}
    /\ stages = [j \in JobIds |-> <<>>]
    /\ req = NoReq
    /\ resp = NoResp
    /\ cancelled = [j \in JobIds |-> "no"]
    /\ faults = [j \in JobIds |-> {}]
    /\ loaded = [j \in JobIds |-> NoLoad]
    /\ models = <<>>
    /\ model_next_id = 1
    /\ calls = [c \in Clients |-> NoCall]
    /\ tasks = <<>>
    /\ mresp = NoResp
    /\ active_connections = <<>>
    /\ sockets = [s \in Sockets |-> "new"]
    /\ bcast = [p \in Publishers |-> NoBroadcast]
    /\ received = [s \in Sockets |-> <<>>]
    /\ missed = {}
    /\ disconnects = [s \in Sockets |-> 0]

\* model_manager.py as imported: _manager = None, no thread inside a call
InitManager ==
    mm = [manager |-> NoManager, managers |-> <<>>, threads |-> [t \in Threads |-> IdleThread],
          loaded |-> {}, returned |-> {}, now |-> 0]

\* StreamingTranscriber.__init__
InitStream == stream = [audio_buffer |-> <<>>, returned |-> [type |-> "unset"],
                        submitted |-> <<>>]

\* no call of combine_with_timing
NoSyncCall == [segments |-> <<>>, total_duration |-> 0, audio_buffer |-> <<>>,
               start_samples |-> <<>>, done |-> FALSE]

Init ==
    InitService /\ diar_call = NoDiarCall /\ InitManager /\ InitStream /\ sync_call = NoSyncCall

\* one deployment, for the parts of the service that do not run jobs
InitSide == Init /\ ~celery_available /\ max_concurrent_jobs = 1

\* ------------------------------------------------------------- submission

\* create_job: queue_position = count(PENDING, QUEUED, PROCESSING) + 1
PendingCount == Cardinality({j \in DOMAIN jobs : jobs[j].status \in {"pending", "queued", "processing"}})

NewJob(priority, position) ==
    [status |-> "queued", progress |-> 0, priority |-> priority, queue_position |-> position]

NewOptions(diar, tts, sync, batch, path) ==
    [enable_diarization |-> diar, enable_tts |-> tts, sync_tts_timing |-> sync,
     batch_id |-> batch, original_path |-> path]

\* create_job: upload_dir / f"{file_id}{ext}" with file_id a fresh uuid
UploadPath(id) == [batch |-> NoBatch, file_id |-> id, stem |-> "", ext |-> ".mp3"]

\* create_batch: upload_dir / f"{batch.id}_{file.filename}"
BatchPath(name) == [batch |-> BatchId, file_id |-> 0, stem |-> name[1], ext |-> name[2]]

\* the file names of an upload, as (stem, extension)
FileNames == {<<"a", ".mp4">>, <<"a", ".wav">>, <<"b", ".wav">>}
TwoNames == <<<<"a", ".wav">>, <<"b", ".wav">>>>

\* extract_audio_if_needed: the path the run reads its audio from
AudioPath(path) ==
    IF path.ext \in {".mp4", ".webm", ".mkv", ".mov", ".avi", ".mpeg"}
      THEN [path EXCEPT !.ext = ".wav"]
      ELSE path

\* executor.submit for the job ids js, in order: an idle worker thread takes the
\* work item at once and process_job_async loads the job; with every worker
\* busy the item waits in the executor's FIFO work queue
RECURSIVE Submit(_, _, _)
Submit(js, r, q) ==
    IF js = <<>> THEN [run |-> r, queue |-> q]
    ELSE IF q = <<>> /\ Cardinality({j \in JobIds : r[j].exec = "pool" /\ r[j].pc \notin Ended})
                          < ExecutorWorkers
      THEN Submit(Tail(js), [r EXCEPT ![Head(js)] = [pc |-> "begin", exec |-> "pool"]], q)
      ELSE Submit(Tail(js), r, Append(q, Head(js)))

create_job(priority, diar, tts, sync) ==
    /\ jobs' = jobs @@ (next_id :> NewJob(priority, PendingCount + 1))
    /\ options' = [options EXCEPT ![next_id] = NewOptions(diar, tts, sync, NoBatch, UploadPath(next_id))]
    /\ next_id' = next_id + 1
    /\ IF celery_available
         THEN celery_queue' = Append(celery_queue, next_id) /\ UNCHANGED <<pool_queue, run>>
         ELSE /\ run' = Submit(<<next_id>>, run, pool_queue).run
              /\ pool_queue' = Submit(<<next_id>>, run, pool_queue).queue
              /\ UNCHANGED celery_queue
    /\ UNCHANGED <<celery_available, max_concurrent_jobs, batches, progress_log,
                   events, stages, req, resp, cancelled, faults, loaded, others>>

\* create_batch: two files, common settings, every member sent to the thread pool
create_batch(diar, tts, names) ==
    /\ BatchId \notin DOMAIN batches
    /\ batches' = batches @@ (BatchId :> [total_files |-> 2, completed_files |-> 0,
                                          failed_files |-> 0, status |-> "pending"])
    /\ jobs' = jobs @@ (next_id :> NewJob(DefaultPriority, 0))
                    @@ (next_id + 1 :> NewJob(DefaultPriority, 0))
    /\ options' = [options EXCEPT
                      ![next_id] = NewOptions(diar, tts, TRUE, BatchId, BatchPath(names[1])),
                      ![next_id + 1] = NewOptions(diar, tts, TRUE, BatchId, BatchPath(names[2]))]
    /\ next_id' = next_id + 2
    /\ run' = Submit(<<next_id, next_id + 1>>, run, pool_queue).run
    /\ pool_queue' = Submit(<<next_id, next_id + 1>>, run, pool_queue).queue
    /\ UNCHANGED <<celery_available, max_concurrent_jobs, celery_queue, progress_log,
                   events, stages, req, resp, cancelled, faults, loaded, others>>

\* update_batch_progress, computed on the jobs table t
CountStatus(t, b, s) ==
    Cardinality({j \in DOMAIN t : options[j].batch_id = b /\ t[j].status = s})

update_batch_progress(t, b) ==
    IF b \notin DOMAIN batches THEN batches
    ELSE LET completed == CountStatus(t, b, "completed")
             failed == CountStatus(t, b, "failed")
             st == IF completed + failed >= batches[b].total_files
                     THEN (IF failed = 0 THEN "completed" ELSE "failed")
                   ELSE IF completed + failed > 0 THEN "processing"
                   ELSE batches[b].status
         IN [batches EXCEPT ![b] = [total_files |-> batches[b].total_files,
                                    completed_files |-> completed,
                                    failed_files |-> failed,
                                    status |-> st]]

\* ------------------------------------------------------- event publication
RECURSIVE Scale(_, _, _)
Scale(ps, base, num) ==
    IF ps = <<>> THEN <<>> ELSE <<base + (Head(ps) * num) \div 10>> \o Scale(Tail(ps), base, num)

RECURSIVE NonDecreasing(_)
NonDecreasing(vs) ==
    IF Len(vs) < 2 THEN TRUE ELSE vs[1] <= vs[2] /\ NonDecreasing(Tail(vs))

\* broadcast_progress / update_progress: the progress values vs published for job j
Published(j, vs) ==
    IF vs = <<>> THEN progress_log
    ELSE [progress_log EXCEPT ![j] =
            [last |-> vs[Len(vs)],
             monotone |-> @.monotone /\ NonDecreasing(<<@.last>> \o vs)]]

RunFrame == UNCHANGED <<celery_available, max_concurrent_jobs, options, next_id,
                        pool_queue, celery_queue, req, resp, cancelled, loaded, others>>

\* a step of a run in which no model is looked up and no adapter is called
StepFrame == RunFrame /\ UNCHANGED faults

\* the model lookup or adapter call of job j's run ended with outcome
Met(j, outcome) ==
    IF outcome \in {"ok", "ok_video"} THEN faults
    ELSE [faults EXCEPT ![j] = @ \cup {outcome}]

\* --------------------------------------- process_job_async (thread pool)
PoolAt(j, pc) == run[j] = [pc |-> pc, exec |-> "pool"]
PoolGoto(j, pc) == [run EXCEPT ![j] = [pc |-> pc, exec |-> "pool"]]

\* start_job_background.run on a worker thread that has finished its item: it
\* takes the oldest waiting work item and process_job_async loads the job
\* (and returns at once when the row is gone)
start_job_background ==
    /\ pool_queue # <<>>
    /\ Cardinality(PoolActive) < ExecutorWorkers
    /\ LET j == Head(pool_queue) IN
         run' = PoolGoto(j, IF Exists(j) THEN "begin" ELSE "notfound")
    /\ pool_queue' = Tail(pool_queue)
    /\ UNCHANGED <<celery_available, max_concurrent_jobs, jobs, options, next_id, batches,
                   celery_queue, progress_log, events, stages, req, resp, cancelled, faults, loaded, others>>

\* the except branch: refresh, FAILED, commit; a batch member goes on to
\* update_batch_progress, any other job to the broadcast of "failed" at 0.
\* With the row deleted session.refresh raises and the run dies in the handler.
process_job_async_except(j) ==
    IF Exists(j)
      THEN LET t == [jobs EXCEPT ![j].status = "failed"] IN
           /\ jobs' = t
           /\ IF options[j].batch_id # NoBatch
                THEN /\ run' = PoolGoto(j, "except_batch")
                     /\ UNCHANGED progress_log
                ELSE /\ progress_log' = Published(j, <<0>>)
                     /\ run' = PoolGoto(j, "done")
           /\ UNCHANGED <<batches, events, stages>>
      ELSE /\ run' = PoolGoto(j, "dead")
           /\ UNCHANGED <<jobs, batches, progress_log, events, stages>>

\* status PROCESSING, commit, broadcast 0
pool_begin(j) ==
    /\ PoolAt(j, "begin")
    /\ IF Exists(j)
         THEN /\ jobs' = [jobs EXCEPT ![j].status = "processing"]
              /\ progress_log' = Published(j, <<0>>)
              /\ run' = PoolGoto(j, "stt_start")
              /\ UNCHANGED <<batches, events, stages>>
         ELSE process_job_async_except(j)
    /\ StepFrame

\* status TRANSCRIBING, commit, broadcast 5
pool_transcribing(j) ==
    /\ PoolAt(j, "stt_start")
    /\ IF Exists(j)
         THEN /\ jobs' = [jobs EXCEPT ![j].status = "transcribing"]
              /\ progress_log' = Published(j, <<5>>)
              /\ stages' = [stages EXCEPT ![j] = Append(@, "transcribe")]
              /\ run' = PoolGoto(j, "stt_run")
              /\ UNCHANGED <<batches, events>>
         ELSE process_job_async_except(j)
    /\ StepFrame

AfterTranscribe(j) ==
    IF options[j].enable_diarization THEN "diar_start"
    ELSE IF options[j].enable_tts THEN "tts_start" ELSE "complete"

AfterDiarize(j) == IF options[j].enable_tts THEN "tts_start" ELSE "complete"

\* run_transcription: model lookup, adapter call with progress callbacks
\* (10 + p * 0.5), job.progress = 55, commit
run_transcription(j, outcome, cbs) ==
    /\ PoolAt(j, "stt_run")
    /\ IF outcome = "ok" /\ Exists(j)
         THEN /\ jobs' = [jobs EXCEPT ![j].progress = 55]
              /\ progress_log' = Published(j, Scale(cbs, 10, 5))
              /\ run' = PoolGoto(j, AfterTranscribe(j))
              /\ UNCHANGED <<batches, events, stages>>
         ELSE process_job_async_except(j)
    /\ faults' = Met(j, outcome)
    /\ RunFrame

\* status DIARIZING, commit, broadcast 60
pool_diarizing(j) ==
    /\ PoolAt(j, "diar_start")
    /\ IF Exists(j)
         THEN /\ jobs' = [jobs EXCEPT ![j].status = "diarizing"]
              /\ progress_log' = Published(j, <<60>>)
              /\ stages' = [stages EXCEPT ![j] = Append(@, "diarize")]
              /\ run' = PoolGoto(j, "diar_run")
              /\ UNCHANGED <<batches, events>>
         ELSE process_job_async_except(j)
    /\ StepFrame

\* run_diarization: a missing model and an adapter failure are skipped, not raised
DiarizationEvents(outcome) ==
    CASE outcome \in {"no_model", "not_downloaded"} -> <<75>>
      [] outcome = "engine_error" -> <<62, 75>>
      [] OTHER -> <<62, 70, 75>>

run_diarization(j, outcome) ==
    /\ PoolAt(j, "diar_run")
    /\ IF outcome = "raise"
         THEN process_job_async_except(j)
         ELSE /\ progress_log' = Published(j, DiarizationEvents(outcome))
              /\ run' = PoolGoto(j, AfterDiarize(j))
              /\ UNCHANGED <<jobs, batches, events, stages>>
    /\ faults' = Met(j, outcome)
    /\ RunFrame

\* status SYNTHESIZING, commit, broadcast 80
pool_synthesizing(j) ==
    /\ PoolAt(j, "tts_start")
    /\ IF Exists(j)
         THEN /\ jobs' = [jobs EXCEPT ![j].status = "synthesizing"]
              /\ progress_log' = Published(j, <<80>>)
              /\ stages' = [stages EXCEPT ![j] = Append(@, "synthesize")]
              /\ run' = PoolGoto(j, "tts_run")
              /\ UNCHANGED <<batches, events>>
         ELSE process_job_async_except(j)
    /\ StepFrame

\* run_tts: a missing model, a missing transcript and an adapter failure are skipped
TtsEvents(outcome) ==
    CASE outcome \in {"no_model", "not_downloaded"} -> <<95>>
      [] outcome = "no_transcript" -> <<82, 95>>
      [] outcome = "engine_error" -> <<82, 85, 95>>
      [] OTHER -> <<82, 85, 92, 95>>

run_tts(j, outcome) ==
    /\ PoolAt(j, "tts_run")
    /\ IF outcome = "raise"
         THEN process_job_async_except(j)
         ELSE /\ progress_log' = Published(j, TtsEvents(outcome))
              /\ run' = PoolGoto(j, "complete")
              /\ UNCHANGED <<jobs, batches, events, stages>>
    /\ faults' = Met(j, outcome)
    /\ RunFrame

\* refresh, status COMPLETED, progress 100, commit
pool_complete(j) ==
    /\ PoolAt(j, "complete")
    /\ IF Exists(j)
         THEN /\ jobs' = [jobs EXCEPT ![j].status = "completed", ![j].progress = 100]
              /\ run' = PoolGoto(j, "finish")
              /\ UNCHANGED <<batches, progress_log, events, stages>>
         ELSE process_job_async_except(j)
    /\ StepFrame

\* the frame of the steps of update_batch_progress
BatchFrame == UNCHANGED <<celery_available, max_concurrent_jobs, options, next_id,
                          pool_queue, celery_queue, req, resp, cancelled, faults, others>>

\* update_batch_progress up to its commit: the batch row as loaded, and the row
\* after the assignments computed from the member jobs loaded with it
Load(b, then) == [row |-> batches[b], new |-> update_batch_progress(jobs, b)[b], then |-> then]

\* the UPDATE of the commit: the columns whose assigned value differs from the
\* loaded one
Flush(b, l) ==
    [batches EXCEPT ![b] = [f \in DOMAIN l.new |->
                               IF l.new[f] # l.row[f] THEN l.new[f] ELSE batches[b][f]]]

\* still inside the try: for a batch member the select of update_batch_progress
\* (a store error raises into the except branch), for any other job the
\* broadcast of 100
pool_finish(j, outcome) ==
    /\ PoolAt(j, "finish")
    /\ outcome = "db_error" => options[j].batch_id # NoBatch
    /\ IF outcome = "db_error"
         THEN process_job_async_except(j) /\ UNCHANGED loaded
         ELSE IF options[j].batch_id # NoBatch
           THEN /\ loaded' = [loaded EXCEPT ![j] = Load(options[j].batch_id, 100)]
                /\ run' = PoolGoto(j, "batch_commit")
                /\ UNCHANGED <<jobs, batches, progress_log, events, stages>>
           ELSE /\ progress_log' = Published(j, <<100>>)
                /\ run' = PoolGoto(j, "done")
                /\ UNCHANGED <<jobs, batches, events, stages, loaded>>
    /\ BatchFrame

\* the select of update_batch_progress in the except branch
pool_except_batch(j) ==
    /\ PoolAt(j, "except_batch")
    /\ loaded' = [loaded EXCEPT ![j] = Load(options[j].batch_id, 0)]
    /\ run' = PoolGoto(j, "batch_commit")
    /\ UNCHANGED <<jobs, batches, progress_log, events, stages>>
    /\ BatchFrame

\* the commit of update_batch_progress, then the broadcast of 100 or of
\* "failed" at 0
update_batch_progress_commit(j) ==
    /\ PoolAt(j, "batch_commit")
    /\ batches' = Flush(options[j].batch_id, loaded[j])
    /\ progress_log' = Published(j, <<loaded[j].then>>)
    /\ loaded' = [loaded EXCEPT ![j] = NoLoad]
    /\ run' = PoolGoto(j, "done")
    /\ UNCHANGED <<jobs, events, stages>>
    /\ BatchFrame

\* ------------------------------------------------- process_job (Celery)
CeleryAt(j, pc) == run[j] = [pc |-> pc, exec |-> "celery"]
CeleryGoto(j, pc) == [run EXCEPT ![j] = [pc |-> pc, exec |-> "celery"]]

\* a Celery worker takes the oldest process_job message and loads the job
celery_start ==
    /\ celery_queue # <<>>
    /\ LET j == Head(celery_queue) IN
         run' = CeleryGoto(j, IF Exists(j) THEN "begin" ELSE "notfound")
    /\ celery_queue' = Tail(celery_queue)
    /\ UNCHANGED <<celery_available, max_concurrent_jobs, jobs, options, next_id, batches,
                   pool_queue, progress_log, events, stages, req, resp, cancelled, faults, loaded, others>>

\* the except branch: refresh, FAILED, commit, notify_failure
process_job_except(j) ==
    IF Exists(j)
      THEN /\ jobs' = [jobs EXCEPT ![j].status = "failed"]
           /\ events' = events \cup {[type |-> "job_failed", job |-> j]}
           /\ run' = CeleryGoto(j, "done")
           /\ UNCHANGED <<batches, progress_log, stages>>
      ELSE /\ run' = CeleryGoto(j, "dead")
           /\ UNCHANGED <<jobs, batches, progress_log, events, stages>>

\* the chain built from the job's flags
ChainAfterTranscribe(j) ==
    IF options[j].enable_diarization THEN "diar_start"
    ELSE IF options[j].enable_tts THEN "tts_start" ELSE "complete"

ChainAfterDiarize(j) == IF options[j].enable_tts THEN "tts_start" ELSE "complete"

ChainAfterSynthesize(j) == IF options[j].sync_tts_timing THEN "sync_start" ELSE "complete"

\* status PROCESSING, commit; the chain is built and sent
celery_begin(j) ==
    /\ CeleryAt(j, "begin")
    /\ IF Exists(j)
         THEN /\ jobs' = [jobs EXCEPT ![j].status = "processing"]
              /\ run' = CeleryGoto(j, "stt_start")
              /\ UNCHANGED <<batches, progress_log, events, stages>>
         ELSE process_job_except(j)
    /\ StepFrame

\* a stage task up to its first update_progress: load the job, look the model
\* up, write the stage status, publish the stage's first progress value
StageStart(j, outcome, status, stage, first, next) ==
    IF outcome = "ok" /\ Exists(j)
      THEN /\ jobs' = [jobs EXCEPT ![j].status = status, ![j].progress = first]
           /\ progress_log' = Published(j, <<first>>)
           /\ stages' = [stages EXCEPT ![j] = Append(@, stage)]
           /\ run' = CeleryGoto(j, next)
           /\ UNCHANGED <<batches, events>>
      ELSE process_job_except(j)

\* the rest of a stage task: the adapter call and the later update_progress calls
StageRun(j, outcome, published, next) ==
    IF outcome \in {"ok", "ok_video"} /\ Exists(j)
      THEN /\ jobs' = [jobs EXCEPT ![j].progress = published[Len(published)]]
           /\ progress_log' = Published(j, published)
           /\ run' = CeleryGoto(j, next)
           /\ UNCHANGED <<batches, events, stages>>
      ELSE process_job_except(j)

transcribe_audio_start(j, outcome) ==
    /\ CeleryAt(j, "stt_start")
    /\ StageStart(j, outcome, "transcribing", "transcribe", 10, "stt_run")
    /\ faults' = Met(j, outcome)
    /\ RunFrame

transcribe_audio(j, outcome) ==
    /\ CeleryAt(j, "stt_run")
    /\ StageRun(j, outcome, <<85, 95>>, ChainAfterTranscribe(j))
    /\ faults' = Met(j, outcome)
    /\ RunFrame

diarize_audio_start(j, outcome) ==
    /\ CeleryAt(j, "diar_start")
    /\ StageStart(j, outcome, "diarizing", "diarize", 50, "diar_run")
    /\ faults' = Met(j, outcome)
    /\ RunFrame

diarize_audio(j, outcome) ==
    /\ CeleryAt(j, "diar_run")
    /\ StageRun(j, outcome, <<70, 80>>, ChainAfterDiarize(j))
    /\ faults' = Met(j, outcome)
    /\ RunFrame

synthesize_speech_start(j, outcome) ==
    /\ CeleryAt(j, "tts_start")
    /\ StageStart(j, outcome, "synthesizing", "synthesize", 60, "tts_run")
    /\ faults' = Met(j, outcome)
    /\ RunFrame

synthesize_speech(j, outcome) ==
    /\ CeleryAt(j, "tts_run")
    /\ StageRun(j, outcome, <<85, 90>>, ChainAfterSynthesize(j))
    /\ faults' = Met(j, outcome)
    /\ RunFrame

sync_audio_timing_start(j) ==
    /\ CeleryAt(j, "sync_start")
    /\ StageStart(j, "ok", "syncing", "sync", 92, "sync_run")
    /\ StepFrame

sync_audio_timing(j, outcome) ==
    /\ CeleryAt(j, "sync_run")
    /\ StageRun(j, outcome, IF outcome = "ok_video" THEN <<95, 97, 99>> ELSE <<95, 99>>,
                "complete")
    /\ faults' = Met(j, outcome)
    /\ RunFrame

\* refresh, status COMPLETED, progress 100, commit
celery_complete(j) ==
    /\ CeleryAt(j, "complete")
    /\ IF Exists(j)
         THEN /\ jobs' = [jobs EXCEPT ![j].status = "completed", ![j].progress = 100]
              /\ run' = CeleryGoto(j, "notify")
              /\ UNCHANGED <<batches, progress_log, events, stages>>
         ELSE process_job_except(j)
    /\ StepFrame

notify_completion(j) ==
    /\ CeleryAt(j, "notify")
    /\ events' = events \cup {[type |-> "job_completed", job |-> j]}
    /\ run' = CeleryGoto(j, "done")
    /\ UNCHANGED <<jobs, batches, progress_log, stages>>
    /\ StepFrame

\* ----------------------------------------------------------- queue API
ApiFrame == UNCHANGED <<celery_available, max_concurrent_jobs, options, next_id, batches,
                        pool_queue, celery_queue, run, progress_log, stages, faults, loaded, others>>

\* the HTTP answer: handler, status code, and the job id its detail names (0: none)
Respond(op, code, j) == [op |-> op, code |-> code, job |-> j]

\* update_job_priority up to the validated job: range check, select, status check
PriorityVerdict(j, p) ==
    IF p < MinPriority \/ p > MaxPriority THEN 400
    ELSE IF ~Exists(j) THEN 404
    ELSE IF jobs[j].status \notin Reorderable THEN 400
    ELSE 200

update_job_priority(j, p) ==
    /\ req = NoReq
    /\ IF PriorityVerdict(j, p) = 200
         THEN req' = [job |-> j, priority |-> p] /\ UNCHANGED resp
         ELSE resp' = Respond("update_job_priority", PriorityVerdict(j, p), 0) /\ UNCHANGED req
    /\ UNCHANGED <<jobs, events, cancelled>>
    /\ ApiFrame

\* job.priority = priority, commit (an UPDATE of the priority column of the
\* row, whatever its status is by now), broadcast priority_changed
update_job_priority_commit ==
    /\ req # NoReq
    /\ IF Exists(req.job)
         THEN /\ jobs' = [jobs EXCEPT ![req.job].priority = req.priority]
              /\ events' = events \cup {[type |-> "priority_changed", job |-> req.job]}
              /\ resp' = Respond("update_job_priority", 200, req.job)
         ELSE /\ resp' = Respond("update_job_priority", 500, 0)
              /\ UNCHANGED <<jobs, events>>
    /\ req' = NoReq
    /\ UNCHANGED cancelled
    /\ ApiFrame

\* batch_reorder_queue: the verification loop over request.job_ids
RECURSIVE ReorderVerdict(_, _)
ReorderVerdict(ids, t) ==
    IF ids = <<>> THEN 200
    ELSE IF Head(ids) \notin DOMAIN t THEN 404
    ELSE IF t[Head(ids)].status \notin Reorderable THEN 400
    ELSE ReorderVerdict(Tail(ids), t)

\* the job id named by the HTTPException of the verification loop (0: none raised)
RECURSIVE ReorderOffender(_, _)
ReorderOffender(ids, t) ==
    IF ids = <<>> THEN 0
    ELSE IF Head(ids) \notin DOMAIN t \/ t[Head(ids)].status \notin Reorderable THEN Head(ids)
    ELSE ReorderOffender(Tail(ids), t)

Min(a, b) == IF a <= b THEN a ELSE b

\* batch_reorder_queue: the update loop, position k is the 1-based list position
RECURSIVE ReorderAssign(_, _, _)
ReorderAssign(ids, k, t) ==
    IF ids = <<>> THEN t
    ELSE ReorderAssign(Tail(ids), k + 1,
                       [t EXCEPT ![Head(ids)].priority = Min(k, MaxPriority),
                                 ![Head(ids)].queue_position = k])

\* the verification loop and the update loop fused: the jobs up to the first
\* offending id are updated (what the handler would do if it validated lazily)
RECURSIVE ReorderAssignLazy(_, _, _)
ReorderAssignLazy(ids, k, t) ==
    IF ids = <<>> \/ Head(ids) \notin DOMAIN t THEN t
    ELSE IF t[Head(ids)].status \notin Reorderable THEN t
    ELSE ReorderAssignLazy(Tail(ids), k + 1,
                           [t EXCEPT ![Head(ids)].priority = Min(k, MaxPriority),
                                     ![Head(ids)].queue_position = k])

ReorderCommitLazy(ids, t) == ReorderAssignLazy(ids, 1, t)

\* the jobs table batch_reorder_queue commits for the list ids
ReorderCommit(ids, t) ==
    IF ReorderVerdict(ids, t) = 200 THEN ReorderAssign(ids, 1, t) ELSE t

ReorderInputs == UNION {[1..n -> JobIds] : n \in 0..MaxReorderLen}

batch_reorder_queue(ids) ==
    /\ LET code == IF ids = <<>> THEN 400 ELSE ReorderVerdict(ids, jobs) IN
         /\ resp' = Respond("batch_reorder_queue", code, ReorderOffender(ids, jobs))
         /\ jobs' = IF ids = <<>> THEN jobs ELSE ReorderCommit(ids, jobs)
         /\ events' = IF code = 200
                        THEN events \cup {[type |-> "queue_batch_reordered", job |-> 0]}
                        ELSE events
    /\ UNCHANGED <<req, cancelled>>
    /\ ApiFrame

\* a delete_job that only marks the job and keeps its row
RemoveRowKept(t, j) == t

\* delete_job: CANCELLED is set on the loaded object of a queued, processing or
\* transcribing job, then the row is deleted in the same commit
RemoveRow(t, j) == [k \in DOMAIN t \ {j} |-> t[k]]

\* a delete_job that sets CANCELLED on the job it finds, whatever its status,
\* and keeps the row
delete_job_mark(j) ==
    /\ IF Exists(j)
         THEN /\ jobs' = [jobs EXCEPT ![j].status = "cancelled"]
              /\ cancelled' = [cancelled EXCEPT ![j] =
                                 IF jobs[j].status \in Reorderable THEN "queued"
                                 ELSE IF jobs[j].status \in InProgress THEN "running"
                                 ELSE "terminal"]
         ELSE UNCHANGED <<jobs, cancelled>>
    /\ UNCHANGED <<req, resp, events>>
    /\ ApiFrame

delete_job(j) ==
    /\ IF Exists(j)
         THEN /\ jobs' = RemoveRow(jobs, j)
              /\ cancelled' = [cancelled EXCEPT ![j] =
                                 IF jobs[j].status \in Reorderable THEN "queued"
                                 ELSE IF jobs[j].status \in InProgress THEN "running"
                                 ELSE "terminal"]
         ELSE UNCHANGED <<jobs, cancelled>>
    /\ UNCHANGED <<req, resp, events>>
    /\ ApiFrame

\* --------------------------------------------------- model registry API
ModelTypes == {"whisper", "tts"}
ModelSources == {"huggingface", "url"}

\* the (engine, model_id) pairs of the requests: a faster-whisper model of the
\* hub, a faster-whisper model behind a URL, a piper voice of the hub
ModelKeys == {"whisper_hub", "whisper_url", "piper_hub"}

TypeOfKey(k) == IF k = "piper_hub" THEN "tts" ELSE "whisper"
SourceOfKey(k) == IF k = "whisper_url" THEN "url" ELSE "huggingface"

\* the ModelCreate bodies sent to register_model
ModelDescs == {d \in [model_type : ModelTypes, key : ModelKeys, is_default : BOOLEAN,
                      source : ModelSources] :
                  d.model_type = TypeOfKey(d.key) /\ d.source = SourceOfKey(d.key)}

MExists(m) == m \in DOMAIN models

\* select(Model).where(model_type == ty, is_default == True)
DefaultsOf(t, ty) == {m \in DOMAIN t : t[m].model_type = ty /\ t[m].is_default}

MRespond(op, code) == [op |-> op, code |-> code, job |-> 0]

Registering == {c \in Clients : calls[c].op = "register"}

\* background_tasks.add_task(download_model_task, id)
AddTask(m) ==
    LET t == Cardinality(DOMAIN tasks) + 1 IN tasks @@ (t :> [model |-> m, pc |-> "queued"])

\* register_model up to its commit: the duplicate check and, for a default
\* model, the select of the current defaults of the type
register_model(c, desc) ==
    /\ calls[c] = NoCall
    /\ model_next_id + Cardinality(Registering) <= MaxModels
    /\ IF \E m \in DOMAIN models : models[m].key = desc.key
         THEN /\ mresp' = MRespond("register_model", 400)
              /\ UNCHANGED calls
         ELSE /\ calls' = [calls EXCEPT ![c] =
                             [op |-> "register", desc |-> desc,
                              seen |-> IF desc.is_default
                                         THEN DefaultsOf(models, desc.model_type) ELSE {}]]
              /\ UNCHANGED mresp
    /\ UNCHANGED <<models, model_next_id, tasks>>
    /\ UNCHANGED <<JobVars, BusVars, MoreVars>>

\* the rows after is_default = False on the loaded defaults
Unset(t, seen) == [m \in DOMAIN t |-> IF m \in seen THEN [t[m] EXCEPT !.is_default = FALSE]
                                       ELSE t[m]]

\* register_model: the commit (UPDATE of the loaded defaults, INSERT of the new
\* row) and the queued download. The UPDATE of a row deleted meanwhile fails.
register_model_commit(c) ==
    /\ calls[c].op = "register"
    /\ LET desc == calls[c].desc
           seen == calls[c].seen
       IN IF seen \subseteq DOMAIN models
            THEN /\ models' = Unset(models, seen) @@
                                (model_next_id :> [model_type |-> desc.model_type,
                                                   key |-> desc.key,
                                                   source |-> desc.source,
                                                   is_default |-> desc.is_default,
                                                   is_downloaded |-> FALSE,
                                                   local_path |-> "",
                                                   download_progress |-> NoProgressValue,
                                                   download_error |-> FALSE])
                 /\ model_next_id' = model_next_id + 1
                 /\ tasks' = IF Cardinality(DOMAIN tasks) < MaxTasks
                               THEN AddTask(model_next_id) ELSE tasks
                 /\ mresp' = MRespond("register_model", 201)
            ELSE /\ mresp' = MRespond("register_model", 500)
                 /\ UNCHANGED <<models, model_next_id, tasks>>
    /\ calls' = [calls EXCEPT ![c] = NoCall]
    /\ UNCHANGED <<JobVars, BusVars, MoreVars>>

\* set_default_model up to its commit: the model and the defaults of its type
set_default_model(c, m) ==
    /\ calls[c] = NoCall
    /\ IF MExists(m)
         THEN /\ calls' = [calls EXCEPT ![c] =
                             [op |-> "set_default", model |-> m,
                              seen |-> DefaultsOf(models, models[m].model_type)]]
              /\ UNCHANGED mresp
         ELSE /\ mresp' = MRespond("set_default_model", 404)
              /\ UNCHANGED calls
    /\ UNCHANGED <<models, model_next_id, tasks>>
    /\ UNCHANGED <<JobVars, BusVars, MoreVars>>

\* set_default_model: others.is_default = False, model.is_default = True, commit
set_default_model_commit(c) ==
    /\ calls[c].op = "set_default"
    /\ LET m == calls[c].model
           seen == calls[c].seen
       IN IF (seen \cup {m}) \subseteq DOMAIN models
            THEN /\ models' = [Unset(models, seen) EXCEPT ![m].is_default = TRUE]
                 /\ mresp' = MRespond("set_default_model", 200)
            ELSE /\ mresp' = MRespond("set_default_model", 500)
                 /\ UNCHANGED models
    /\ calls' = [calls EXCEPT ![c] = NoCall]
    /\ UNCHANGED <<model_next_id, tasks>>
    /\ UNCHANGED <<JobVars, BusVars, MoreVars>>

\* the removal of the local files raises: shutil.rmtree(ignore_errors=True) of a
\* directory never does, os.remove of a file does when the removal fails
RemovalRaises(path, removal) == path = "file" /\ removal = "error"

\* delete_model: removal says how the removal of the local files goes, where
\* one is attempted
delete_model(m, delete_files, removal) ==
    /\ IF ~MExists(m)
         THEN /\ mresp' = MRespond("delete_model", 404)
              /\ UNCHANGED models
         ELSE IF delete_files /\ RemovalRaises(models[m].local_path, removal)
           THEN /\ mresp' = MRespond("delete_model", 500)
                /\ UNCHANGED models
           ELSE /\ models' = [k \in DOMAIN models \ {m} |-> models[k]]
                /\ mresp' = MRespond("delete_model", 204)
    /\ UNCHANGED <<model_next_id, calls, tasks>>
    /\ UNCHANGED <<JobVars, BusVars, MoreVars>>

\* download_model: queues download_model_task unless the model is downloaded
\* and force is not set
download_model(m, force) ==
    /\ Cardinality(DOMAIN tasks) < MaxTasks
    /\ IF ~MExists(m)
         THEN mresp' = MRespond("download_model", 404) /\ UNCHANGED tasks
         ELSE IF models[m].is_downloaded /\ ~force
           THEN mresp' = MRespond("download_model", 200) /\ UNCHANGED tasks
           ELSE mresp' = MRespond("download_model", 202) /\ tasks' = AddTask(m)
    /\ UNCHANGED <<models, model_next_id, calls>>
    /\ UNCHANGED <<JobVars, BusVars, MoreVars>>

TaskGoto(t, pc) == [tasks EXCEPT ![t].pc = pc]

\* download_model_for_engine returns a directory for a HuggingFace model and
\* a file for a URL model
LocalPath(source) == IF source = "url" THEN "file" ELSE "dir"

\* the rows after download_model_task stored a finished fetch
Downloaded(t, m) == [t EXCEPT ![m].is_downloaded = TRUE,
                              ![m].local_path = LocalPath(t[m].source),
                              ![m].download_progress = 100]

\* the rows after the except branch of download_model_task
DownloadFailed(t, m) == [t EXCEPT ![m].download_progress = NoProgressValue,
                                  ![m].download_error = TRUE]

\* download_model_task up to the fetch: load the model, download_progress = 0,
\* commit, call download_model_for_engine. The HuggingFace fetch is a blocking
\* call that ends before the event loop runs anything else; the URL fetch
\* awaits the network.
download_model_task(t, outcome) ==
    /\ t \in DOMAIN tasks
    /\ tasks[t].pc = "queued"
    /\ LET m == tasks[t].model IN
         IF ~MExists(m)
           THEN tasks' = TaskGoto(t, "gone") /\ UNCHANGED models
         ELSE IF models[m].source = "url"
           THEN /\ tasks' = TaskGoto(t, "fetching")
                /\ models' = [models EXCEPT ![m].download_progress = 0]
         ELSE IF outcome = "ok"
           THEN tasks' = TaskGoto(t, "done") /\ models' = Downloaded(models, m)
         ELSE tasks' = TaskGoto(t, "failed") /\ models' = DownloadFailed(models, m)
    /\ UNCHANGED <<model_next_id, calls, mresp>>
    /\ UNCHANGED <<JobVars, BusVars, MoreVars>>

\* download_model_task after the awaited fetch: is_downloaded = True, commit;
\* on an exception (the fetch's, or the commit's on a deleted row) the except
\* branch
download_model_task_end(t, outcome) ==
    /\ t \in DOMAIN tasks
    /\ tasks[t].pc = "fetching"
    /\ LET m == tasks[t].model IN
         IF ~MExists(m)
           THEN tasks' = TaskGoto(t, "failed") /\ UNCHANGED models
         ELSE IF outcome = "ok"
           THEN tasks' = TaskGoto(t, "done") /\ models' = Downloaded(models, m)
         ELSE tasks' = TaskGoto(t, "failed") /\ models' = DownloadFailed(models, m)
    /\ UNCHANGED <<model_next_id, calls, mresp>>
    /\ UNCHANGED <<JobVars, BusVars, MoreVars>>

FetchOutcomes == {"ok", "error"}

\* The model registry: up to MaxModels models registered, made default,
\* deleted and downloaded by MaxClients concurrent clients
NextModels ==
    \/ \E c \in Clients, desc \in ModelDescs : register_model(c, desc)
    \/ \E c \in Clients : register_model_commit(c)
    \/ \E c \in Clients, m \in ModelIds : set_default_model(c, m)
    \/ \E c \in Clients : set_default_model_commit(c)
    \/ \E m \in ModelIds, delete_files \in BOOLEAN, removal \in FetchOutcomes :
           delete_model(m, delete_files, removal)
    \/ \E m \in ModelIds, force \in BOOLEAN : download_model(m, force)
    \/ \E t \in TaskIds, o \in FetchOutcomes : download_model_task(t, o)
    \/ \E t \in TaskIds, o \in FetchOutcomes : download_model_task_end(t, o)

SpecModels == InitSide /\ [][NextModels]_vars

\* ------------------------------------------------------ WebSocket events
Connected == {active_connections[i] : i \in DOMAIN active_connections}

\* a removal by position that takes "not found" for the last position
RemoveByFind(l, s) ==
    LET hits == {i \in DOMAIN l : l[i] = s}
        k == IF hits = {} THEN Len(l) ELSE CHOOSE i \in hits : \A j \in hits : i <= j
    IN  [i \in 1..(IF l = <<>> THEN 0 ELSE Len(l) - 1) |-> IF i < k THEN l[i] ELSE l[i + 1]]

\* `if websocket in list: list.remove(websocket)`: the list without the first
\* occurrence of the socket, the list itself when the socket is not in it
RECURSIVE Remove(_, _)
Remove(l, s) ==
    IF l = <<>> THEN <<>>
    ELSE IF Head(l) = s THEN Tail(l)
    ELSE <<Head(l)>> \o Remove(Tail(l), s)

RECURSIVE RemoveAll(_, _)
RemoveAll(l, ss) ==
    IF ss = {} THEN l
    ELSE LET s == CHOOSE x \in ss : TRUE IN RemoveAll(Remove(l, s), ss \ {s})

\* ConnectionManager.connect, called by queue_websocket
connect(s) ==
    /\ sockets[s] = "new"
    /\ sockets' = [sockets EXCEPT ![s] = "open"]
    /\ active_connections' = Append(active_connections, s)
    /\ UNCHANGED <<bcast, received, missed, disconnects>>
    /\ UNCHANGED <<JobVars, RegVars, MoreVars>>

\* the {"type": "initial_state"} message, as an entry of received
InitialState == <<0, 0>>

\* queue_websocket after connect and its query of the jobs: the snapshot is sent
\* to the socket
initial_state(s) ==
    /\ sockets[s] = "open"
    /\ \A i \in DOMAIN received[s] : received[s][i] # InitialState
    /\ received' = [received EXCEPT ![s] = Append(@, InitialState)]
    /\ UNCHANGED <<active_connections, sockets, bcast, missed, disconnects>>
    /\ UNCHANGED <<JobVars, RegVars, MoreVars>>

\* the client stops reading: a send to it does not return
client_stall(s) ==
    /\ sockets[s] = "open"
    /\ sockets' = [sockets EXCEPT ![s] = "stalled"]
    /\ UNCHANGED <<active_connections, bcast, received, missed, disconnects>>
    /\ UNCHANGED <<JobVars, RegVars, MoreVars>>

\* the client reads again
client_resume(s) ==
    /\ sockets[s] = "stalled"
    /\ sockets' = [sockets EXCEPT ![s] = "open"]
    /\ UNCHANGED <<active_connections, bcast, received, missed, disconnects>>
    /\ UNCHANGED <<JobVars, RegVars, MoreVars>>

\* the client closes the connection: sends to it raise from now on
client_close(s) ==
    /\ sockets[s] \in {"open", "stalled"}
    /\ sockets' = [sockets EXCEPT ![s] = "closed"]
    /\ bcast' = [p \in Publishers |-> [bcast[p] EXCEPT !.live = @ \ {s}]]
    /\ UNCHANGED <<active_connections, received, missed, disconnects>>
    /\ UNCHANGED <<JobVars, RegVars, MoreVars>>

\* ConnectionManager.disconnect, called by the except branches of
\* queue_websocket, which then returns; a broadcast may have removed the socket
\* before
disconnect(s) ==
    /\ sockets[s] = "closed"
    /\ sockets' = [sockets EXCEPT ![s] = "done"]
    /\ active_connections' = Remove(active_connections, s)
    /\ disconnects' = [disconnects EXCEPT ![s] = @ + 1]
    /\ UNCHANGED <<bcast, received, missed>>
    /\ UNCHANGED <<JobVars, RegVars, MoreVars>>

\* ConnectionManager.broadcast is entered: the for loop starts at the head of
\* active_connections
broadcast(p) ==
    /\ bcast[p].pc = "idle"
    /\ bcast[p].n < MaxEvents
    /\ bcast' = [bcast EXCEPT ![p] =
                   [pc |-> "loop", n |-> bcast[p].n + 1, idx |-> 1, disconnected |-> {},
                    live |-> {s \in Connected : sockets[s] \in {"open", "stalled"}}]]
    /\ UNCHANGED <<active_connections, sockets, received, missed, disconnects>>
    /\ UNCHANGED <<JobVars, RegVars, MoreVars>>

\* one turn of the for loop of broadcast: await connection.send_json(message)
\* returns, or raises and the connection is noted; the loop indexes the list as
\* it is now
send_json(p) ==
    /\ bcast[p].pc = "loop"
    /\ bcast[p].idx <= Len(active_connections)
    /\ LET c == active_connections[bcast[p].idx] IN
         /\ sockets[c] # "stalled"
         /\ IF sockets[c] = "open"
              THEN /\ received' = [received EXCEPT ![c] = Append(@, <<p, bcast[p].n>>)]
                   /\ bcast' = [bcast EXCEPT ![p].idx = @ + 1]
              ELSE /\ bcast' = [bcast EXCEPT ![p].idx = @ + 1,
                                             ![p].disconnected = @ \cup {c}]
                   /\ UNCHANGED received
    /\ UNCHANGED <<active_connections, sockets, missed, disconnects>>
    /\ UNCHANGED <<JobVars, RegVars, MoreVars>>

\* the for loop of broadcast is exhausted: the noted connections are
\* disconnected and the call returns
broadcast_return(p) ==
    /\ bcast[p].pc = "loop"
    /\ bcast[p].idx > Len(active_connections)
    /\ active_connections' = RemoveAll(active_connections, bcast[p].disconnected)
    /\ missed' = missed \cup {<<s, <<p, bcast[p].n>>>> : s \in
                     {x \in bcast[p].live :
                         \A i \in DOMAIN received[x] : received[x][i] # <<p, bcast[p].n>>}}
    /\ disconnects' = [s \in Sockets |->
                          IF s \in bcast[p].disconnected THEN disconnects[s] + 1
                          ELSE disconnects[s]]
    /\ bcast' = [bcast EXCEPT ![p] = [NoBroadcast EXCEPT !.n = bcast[p].n]]
    /\ UNCHANGED <<sockets, received>>
    /\ UNCHANGED <<JobVars, RegVars, MoreVars>>

\* The WebSocket side: MaxSockets clients connect, stall and leave while
\* MaxPublishers pipeline runs broadcast MaxEvents events each
NextBus ==
    \/ \E s \in Sockets : connect(s)
    \/ \E s \in Sockets : client_stall(s)
    \/ \E s \in Sockets : client_resume(s)
    \/ \E s \in Sockets : client_close(s)
    \/ \E s \in Sockets : disconnect(s)
    \/ \E p \in Publishers : broadcast(p)
    \/ \E p \in Publishers : send_json(p)
    \/ \E p \in Publishers : broadcast_return(p)

SpecBus == InitSide /\ [][NextBus]_vars

\* Subscribing: the clients connect and are sent their snapshot while the
\* publishers broadcast
NextSubscribe ==
    \/ \E s \in Sockets : connect(s)
    \/ \E s \in Sockets : initial_state(s)
    \/ \E p \in Publishers : broadcast(p)
    \/ \E p \in Publishers : send_json(p)
    \/ \E p \in Publishers : broadcast_return(p)

SpecSubscribe == InitSide /\ [][NextSubscribe]_vars

\* the publishers are running threads: a send to a client that reads again and
\* again returns, and an exhausted loop returns; nothing obliges a client to
\* read or to leave
SpecBusFair ==
    SpecBus /\ \A p \in Publishers : SF_vars(send_json(p)) /\ WF_vars(broadcast_return(p))

\* ---------------------------------------------------- speaker assignment
Speakers == {"SPEAKER_00", "SPEAKER_01"}
Times == 0..MaxTime

\* the diarization segments of the adapter: start < end, a speaker label
DiarSegments == {d \in [start : Times, end : Times, speaker : Speakers] : d.start < d.end}

Larger(a, b) == IF a >= b THEN a ELSE b

\* max(0, min(end, d_seg["end"]) - max(start, d_seg["start"]))
Overlap(d, start, end) == Larger(0, Min(end, d.end) - Larger(start, d.start))

\* the dict speaker_times after the loop over the list l: its keys in insertion
\* order and its values
RECURSIVE SpeakerTimes(_, _, _, _)
SpeakerTimes(l, start, end, acc) ==
    IF l = <<>> THEN acc
    ELSE LET d == Head(l)
             o == Overlap(d, start, end)
             known == \E i \in DOMAIN acc.keys : acc.keys[i] = d.speaker
             next == IF o > 0
                       THEN [keys |-> IF known THEN acc.keys ELSE Append(acc.keys, d.speaker),
                             time |-> [acc.time EXCEPT ![d.speaker] = @ + o]]
                       ELSE acc
         IN SpeakerTimes(Tail(l), start, end, next)

\* max(speaker_times, key=speaker_times.get): the first key, in the order of
\* the dict, whose value no other key exceeds
FirstMax(st) ==
    LET best == CHOOSE i \in DOMAIN st.keys :
                    /\ \A k \in DOMAIN st.keys : st.time[st.keys[k]] <= st.time[st.keys[i]]
                    /\ \A k \in 1..(i - 1) : st.time[st.keys[k]] < st.time[st.keys[i]]
    IN st.keys[best]

find_speaker_for_segment(diarization, start, end) ==
    IF diarization = <<>> THEN NoSpeaker
    ELSE LET st == SpeakerTimes(diarization, start, end,
                                [keys |-> <<>>, time |-> [sp \in Speakers |-> 0]])
         IN IF st.keys = <<>> THEN NoSpeaker ELSE FirstMax(st)

DiarLists == UNION {[1..n -> DiarSegments] : n \in 0..MaxIntervals}

\* the calls of the diarization stage: any list of at most MaxIntervals
\* diarization segments, any transcript segment
InitSpeaker ==
    /\ InitService
    /\ ~celery_available
    /\ max_concurrent_jobs = 1
    /\ diar_call \in {c \in [diarization : DiarLists, start : Times, end : Times,
                             speaker : {"unset"}] : c.start <= c.end}
    /\ InitManager
    /\ InitStream
    /\ sync_call = NoSyncCall

\* the diarization stage assigns the speaker of the segment
assign_speaker ==
    /\ diar_call.speaker = "unset"
    /\ diar_call' = [diar_call EXCEPT !.speaker =
                        find_speaker_for_segment(diar_call.diarization, diar_call.start,
                                                 diar_call.end)]
    /\ UNCHANGED <<JobVars, RegVars, BusVars, mm, stream, sync_call>>

NextSpeaker == assign_speaker

SpecSpeaker == InitSpeaker /\ [][NextSpeaker]_vars

\* ------------------------------------------------------- model manager
MmFrame == UNCHANGED <<JobVars, RegVars, BusVars, diar_call, stream, sync_call>>

ThreadAt(t, pc) == mm.threads[t].pc = pc
ThreadGoto(t, pc) == [mm.threads EXCEPT ![t].pc = pc]

\* a worker thread calls get_whisper_model: the key is built, get_model_manager
\* is entered
get_whisper_model(t, key) ==
    /\ ThreadAt(t, "idle")
    /\ mm.threads[t].calls < MaxCalls
    /\ mm' = [mm EXCEPT !.threads[t] = [pc |-> "get_manager", key |-> key, mgr |-> NoManager,
                                        calls |-> @.calls + 1]]
    /\ MmFrame

\* get_model_manager: if _manager is None
get_model_manager(t) ==
    /\ ThreadAt(t, "get_manager")
    /\ mm' = [mm EXCEPT !.threads = ThreadGoto(t, IF mm.manager = NoManager THEN "create"
                                                  ELSE "return")]
    /\ MmFrame

\* get_model_manager: _manager = ModelManager()
get_model_manager_create(t) ==
    /\ ThreadAt(t, "create")
    /\ mm' = [mm EXCEPT !.managers = Append(@, [models |-> [k \in CacheKeys |-> 0], lock |-> 0,
                                                 last_used |-> [k \in CacheKeys |-> NoTime],
                                                 accessed |-> [k \in CacheKeys |-> NoTime]]),
                        !.manager = Len(mm.managers) + 1,
                        !.threads = ThreadGoto(t, "return")]
    /\ MmFrame

\* get_model_manager: return _manager
get_model_manager_return(t) ==
    /\ ThreadAt(t, "return")
    /\ mm' = [mm EXCEPT !.threads[t].mgr = mm.manager, !.threads[t].pc = "lock"]
    /\ MmFrame

\* ModelManager.get_model: with self._lock
get_model_lock(t) ==
    /\ ThreadAt(t, "lock")
    /\ mm.managers[mm.threads[t].mgr].lock \in {0, t}
    /\ mm' = [mm EXCEPT !.managers[mm.threads[t].mgr].lock = t,
                        !.threads = ThreadGoto(t, "locked")]
    /\ MmFrame

\* the model loader_fn builds: a new object at every call
NewInstance == Cardinality(mm.loaded) + 1

\* a get_model that notes the time of use only when it loads the model
LoadTime(m, key) ==
    IF mm.managers[m].models[key] = 0 THEN mm.now ELSE mm.managers[m].last_used[key]

\* self._last_used[key] = time.time()
UseTime(m, key) == mm.now

\* ModelManager.get_model under the lock: the time of use is noted, the model
\* is loaded on a miss and returned, the lock is released; accessed keeps the
\* time of the call
get_model(t) ==
    /\ ThreadAt(t, "locked")
    /\ LET m == mm.threads[t].mgr
           key == mm.threads[t].key
           miss == mm.managers[m].models[key] = 0
           model == IF miss THEN NewInstance ELSE mm.managers[m].models[key]
       IN mm' = [mm EXCEPT !.managers[m].models[key] = model,
                           !.managers[m].last_used[key] = UseTime(m, key),
                           !.managers[m].accessed[key] = mm.now,
                           !.managers[m].lock = 0,
                           !.loaded = IF miss THEN @ \cup {<<key, model>>} ELSE @,
                           !.returned = @ \cup {<<key, model>>},
                           !.threads = ThreadGoto(t, "idle")]
    /\ MmFrame

\* time.time() moves on
tick ==
    /\ mm.now < MaxClock
    /\ mm' = [mm EXCEPT !.now = @ + 1]
    /\ MmFrame

\* the keys _check_timeouts collects: now - last_used > self._timeout
IdleKeys(m) ==
    {key \in CacheKeys : /\ mm.managers[m].last_used[key] # NoTime
                         /\ mm.now - mm.managers[m].last_used[key] > IdleTimeout}

\* ModelManager._check_timeouts of manager m's cleanup thread, under the lock:
\* _unload_model drops the model and the time of use of every idle key
check_timeouts(m) ==
    /\ m \in DOMAIN mm.managers
    /\ mm.managers[m].lock = 0
    /\ mm' = [mm EXCEPT !.managers[m].models =
                            [key \in CacheKeys |-> IF key \in IdleKeys(m) THEN 0 ELSE @[key]],
                        !.managers[m].last_used =
                            [key \in CacheKeys |-> IF key \in IdleKeys(m) THEN NoTime ELSE @[key]]]
    /\ MmFrame

\* The model cache: MaxThreads worker threads, MaxCalls calls of
\* get_whisper_model each
NextManager ==
    \/ \E t \in Threads, key \in CacheKeys : get_whisper_model(t, key)
    \/ \E t \in Threads : get_model_manager(t)
    \/ \E t \in Threads : get_model_manager_create(t)
    \/ \E t \in Threads : get_model_manager_return(t)
    \/ \E t \in Threads : get_model_lock(t)
    \/ \E t \in Threads : get_model(t)

SpecManager == InitSide /\ [][NextManager]_vars

\* The model cache over time: the same calls, the clock, and the cleanup thread
\* of every manager
NextEvict ==
    \/ NextManager
    \/ tick
    \/ \E m \in Threads : check_timeouts(m)

SpecEvict == InitSide /\ [][NextEvict]_vars

\* ------------------------------------------------ streaming transcription
\* audio in seconds: a second is quiet (RMS below 0.01) or loud
Levels == {"quiet", "loud"}
Chunks == UNION {[1..n -> Levels] : n \in 0..MaxChunk}

\* what self.model.transcribe finds: text, no text, or it raises
SttResults == {"text", "empty", "raise"}

MinSeconds == 1
SilenceSeconds == 2
ForcedSeconds == 5

\* rms < 0.01 over audio[-sample_rate:]
TrailingQuiet(b) == b # <<>> /\ b[Len(b)] = "quiet"

NoEvent == [type |-> "None"]
Transcript(final) == [type |-> "transcript", is_final |-> final]
ErrorEvent == [type |-> "error"]

\* StreamingTranscriber.process_audio_chunk, and the except of the caller:
\* stt is what the first call of transcribe finds, again what a second call
\* in the same chunk finds
process_audio_chunk(chunk, stt, again) ==
    /\ Len(stream.audio_buffer) + Len(chunk) <= MaxBuffer
    /\ LET b == stream.audio_buffer \o chunk
           current_samples == Len(b)
           voice_ended == TrailingQuiet(b) /\ Len(b) > SilenceSeconds
           \* the buffer after the first branch
           b1 == IF voice_ended /\ stt # "raise" THEN <<>> ELSE b
           forced == current_samples > ForcedSeconds
           \* what the forced branch finds: the first answer unless the first
           \* branch used it; cleared audio holds no text
           stt2 == IF voice_ended THEN (IF again = "text" THEN "empty" ELSE again) ELSE stt
           \* the seconds of audio handed to self.model.transcribe, call by call
           first == IF current_samples >= MinSeconds /\ voice_ended THEN <<Len(b)>> ELSE <<>>
           second == IF /\ current_samples >= MinSeconds
                        /\ forced
                        /\ ~(voice_ended /\ stt \in {"raise", "text"})
                     THEN <<Len(b1)>> ELSE <<>>
           Result(r) == [audio_buffer |-> r.audio_buffer, returned |-> r.returned,
                         submitted |-> first \o second]
       IN stream' = Result(
            IF current_samples < MinSeconds THEN [audio_buffer |-> b, returned |-> NoEvent]
            ELSE IF voice_ended /\ stt = "raise"
              THEN [audio_buffer |-> b, returned |-> ErrorEvent]
            ELSE IF voice_ended /\ stt = "text"
              THEN [audio_buffer |-> <<>>, returned |-> Transcript(TRUE)]
            ELSE IF forced /\ stt2 = "raise"
              THEN [audio_buffer |-> b1, returned |-> ErrorEvent]
            ELSE IF forced /\ stt2 = "text"
              THEN [audio_buffer |-> <<>>, returned |-> Transcript(FALSE)]
            ELSE IF forced
              THEN [audio_buffer |-> <<>>, returned |-> NoEvent]
            ELSE [audio_buffer |-> b1, returned |-> NoEvent])
    /\ UNCHANGED <<JobVars, RegVars, BusVars, diar_call, mm, sync_call>>

\* stream_transcription: {"type": "clear"}
clear_buffer ==
    /\ stream.audio_buffer # <<>>
    /\ stream' = [audio_buffer |-> <<>>, returned |-> [type |-> "cleared"],
                  submitted |-> <<>>]
    /\ UNCHANGED <<JobVars, RegVars, BusVars, diar_call, mm, sync_call>>

\* A streaming session: chunks of at most MaxChunk seconds
NextStream ==
    \/ \E chunk \in Chunks, stt \in SttResults, again \in SttResults :
           process_audio_chunk(chunk, stt, again)
    \/ clear_buffer

SpecStream == InitSide /\ [][NextStream]_vars

\* ------------------------------------------------------- timing sync
\* times in units of 1/TimeUnits s; the output has SampleRate samples per second

\* a stretched segment: its start, and its file with a frame rate of half, once
\* or twice the output's and its samples, all of one level (0 being silence), or
\* no file at seg["path"]
SyncSegments ==
    [start : {0, 8, 15}, exists : {TRUE},
     rate : {SampleRate \div 2, SampleRate, 2 * SampleRate},
     samples : UNION {[1..n -> {v}] : n \in 1..MaxSamples, v \in {1, 2}}]
    \cup [start : {0, 8, 15}, exists : {FALSE}, rate : {SampleRate}, samples : {<<>>}]
SyncLists == UNION {[1..n -> SyncSegments] : n \in 0..MaxSegments}

\* int(seconds * sample_rate)
ToSamples(t) == (t * SampleRate) \div TimeUnits

\* the simple resampling: samples[int(i / ratio)] for i in range(int(len * ratio))
Resample(seg) ==
    IF seg.rate = SampleRate THEN seg.samples
    ELSE [i \in 1..((Len(seg.samples) * SampleRate) \div seg.rate) |->
              seg.samples[(((i - 1) * seg.rate) \div SampleRate) + 1]]

\* a placement that leaves alone what an earlier segment wrote
PlaceFirst(buf, start_sample, samples) ==
    [n \in 1..Len(buf) |->
        IF buf[n] = 0 /\ n - 1 >= start_sample /\ n - 1 < start_sample + Len(samples)
          THEN samples[n - start_sample]
          ELSE buf[n]]

\* for i, s in enumerate(samples): if start_sample + i < len(audio_buffer):
\* audio_buffer[start_sample + i] = s
Place(buf, start_sample, samples) ==
    [n \in 1..Len(buf) |->
        IF n - 1 >= start_sample /\ n - 1 < start_sample + Len(samples)
          THEN samples[n - start_sample]
          ELSE buf[n]]

\* the loop over the segments, in list order; a segment without file is passed
RECURSIVE Combine(_, _)
Combine(buf, segs) ==
    IF segs = <<>> THEN buf
    ELSE Combine(IF Head(segs).exists
                   THEN Place(buf, ToSamples(Head(segs).start), Resample(Head(segs)))
                   ELSE buf,
                 Tail(segs))

InitSync ==
    /\ InitService
    /\ ~celery_available
    /\ max_concurrent_jobs = 1
    /\ diar_call = NoDiarCall
    /\ InitManager
    /\ InitStream
    /\ sync_call \in [segments : SyncLists, total_duration : {0, 8, 15, MaxDuration},
                      audio_buffer : {<<>>},
                      start_samples : {<<>>}, done : {FALSE}]

\* combine_with_timing: the silent buffer of int(total_duration * sample_rate)
\* samples, then every segment placed at int(start * sample_rate)
combine_with_timing ==
    /\ ~sync_call.done
    /\ sync_call' =
         [sync_call EXCEPT
            !.audio_buffer = Combine([n \in 1..ToSamples(sync_call.total_duration) |-> 0],
                                     sync_call.segments),
            !.start_samples = [k \in DOMAIN sync_call.segments |->
                                  ToSamples(sync_call.segments[k].start)],
            !.done = TRUE]
    /\ UNCHANGED <<JobVars, RegVars, BusVars, diar_call, mm, stream>>

NextSync == combine_with_timing

SpecSync == InitSync /\ [][NextSync]_vars

\* ------------------------------------------------------------ behaviours
SttOutcomes == {"ok", "no_model", "not_downloaded", "engine_error"}
DiarizationOutcomes == {"ok", "no_model", "not_downloaded", "engine_error", "raise"}
TtsOutcomes == {"ok", "no_model", "not_downloaded", "no_transcript", "engine_error", "raise"}
LookupOutcomes == {"ok", "no_model"}
AdapterOutcomes == {"ok", "engine_error"}

\* the steps of process_job_async on the thread pool
PoolRun ==
    \/ start_job_background
    \/ \E j \in JobIds : pool_begin(j)
    \/ \E j \in JobIds : pool_transcribing(j)
    \/ \E j \in JobIds, o \in SttOutcomes, cbs \in CallbackInputs : run_transcription(j, o, cbs)
    \/ \E j \in JobIds : pool_complete(j)
    \/ \E j \in JobIds, o \in {"ok", "db_error"} : pool_finish(j, o)

PoolStages ==
    \/ \E j \in JobIds : pool_diarizing(j)
    \/ \E j \in JobIds, o \in DiarizationOutcomes : run_diarization(j, o)
    \/ \E j \in JobIds : pool_synthesizing(j)
    \/ \E j \in JobIds, o \in TtsOutcomes : run_tts(j, o)

\* the steps of process_job and of the stage tasks of its chain
CeleryRun ==
    \/ celery_start
    \/ \E j \in JobIds : celery_begin(j)
    \/ \E j \in JobIds, o \in LookupOutcomes : transcribe_audio_start(j, o)
    \/ \E j \in JobIds, o \in AdapterOutcomes : transcribe_audio(j, o)
    \/ \E j \in JobIds : celery_complete(j)
    \/ \E j \in JobIds : notify_completion(j)

CeleryStages ==
    \/ \E j \in JobIds, o \in LookupOutcomes : diarize_audio_start(j, o)
    \/ \E j \in JobIds, o \in AdapterOutcomes : diarize_audio(j, o)
    \/ \E j \in JobIds, o \in LookupOutcomes : synthesize_speech_start(j, o)
    \/ \E j \in JobIds, o \in AdapterOutcomes \cup {"no_transcript"} : synthesize_speech(j, o)
    \/ \E j \in JobIds : sync_audio_timing_start(j)
    \/ \E j \in JobIds, o \in AdapterOutcomes \cup {"ok_video"} : sync_audio_timing(j, o)

\* the same steps with one way to fail per stage
PoolRunFew ==
    \/ start_job_background
    \/ \E j \in JobIds : pool_begin(j)
    \/ \E j \in JobIds : pool_transcribing(j)
    \/ \E j \in JobIds, o \in AdapterOutcomes, cbs \in CallbackInputs : run_transcription(j, o, cbs)
    \/ \E j \in JobIds : pool_complete(j)
    \/ \E j \in JobIds, o \in {"ok", "db_error"} : pool_finish(j, o)

PoolStagesFew ==
    \/ \E j \in JobIds : pool_diarizing(j)
    \/ \E j \in JobIds, o \in {"ok", "raise"} : run_diarization(j, o)
    \/ \E j \in JobIds : pool_synthesizing(j)
    \/ \E j \in JobIds, o \in {"ok", "raise"} : run_tts(j, o)

CeleryRunFew ==
    \/ celery_start
    \/ \E j \in JobIds : celery_begin(j)
    \/ \E j \in JobIds : transcribe_audio_start(j, "ok")
    \/ \E j \in JobIds, o \in AdapterOutcomes : transcribe_audio(j, o)
    \/ \E j \in JobIds : celery_complete(j)
    \/ \E j \in JobIds : notify_completion(j)

CeleryStagesFew ==
    \/ \E j \in JobIds : diarize_audio_start(j, "ok")
    \/ \E j \in JobIds, o \in AdapterOutcomes : diarize_audio(j, o)
    \/ \E j \in JobIds : synthesize_speech_start(j, "ok")
    \/ \E j \in JobIds, o \in AdapterOutcomes : synthesize_speech(j, o)
    \/ \E j \in JobIds : sync_audio_timing_start(j)
    \/ \E j \in JobIds, o \in AdapterOutcomes \cup {"ok_video"} : sync_audio_timing(j, o)

\* the steps of update_batch_progress in the run of a batch member
PoolBatch ==
    \/ \E j \in JobIds : pool_except_batch(j)
    \/ \E j \in JobIds : update_batch_progress_commit(j)

\* the deployment without Celery: every job runs on the thread pool
InitPool == Init /\ ~celery_available

\* Pipeline runs: up to MaxRunJobs jobs with any processing options, deleted
\* at any moment
NextRun ==
    \/ /\ next_id <= MaxRunJobs
       /\ \E d \in BOOLEAN, t \in BOOLEAN, s \in BOOLEAN : create_job(DefaultPriority, d, t, s)
    \/ /\ next_id + 1 <= MaxRunJobs
       /\ \E d \in BOOLEAN, t \in BOOLEAN : create_batch(d, t, TwoNames)
    \/ PoolRunFew
    \/ PoolStagesFew
    \/ PoolBatch
    \/ CeleryRunFew
    \/ CeleryStagesFew
    \/ \E j \in JobIds : delete_job(j)

\* Failures: up to MaxFaultJobs jobs with any processing options, and every
\* outcome of every model lookup and adapter call
NextFault ==
    \/ /\ next_id <= MaxFaultJobs
       /\ \E d \in BOOLEAN, t \in BOOLEAN, s \in BOOLEAN : create_job(DefaultPriority, d, t, s)
    \/ PoolRun
    \/ PoolStages
    \/ CeleryRun
    \/ CeleryStages

SpecFault == Init /\ [][NextFault]_vars

SpecRun == Init /\ [][NextRun]_vars

\* Uploads: single jobs and one batch of two files with any names
NextFiles ==
    \/ /\ next_id <= MaxJobs
       /\ \E d \in BOOLEAN, t \in BOOLEAN, sy \in BOOLEAN : create_job(DefaultPriority, d, t, sy)
    \/ /\ next_id + 1 <= MaxJobs
       /\ \E n1 \in FileNames, n2 \in FileNames : create_batch(FALSE, FALSE, <<n1, n2>>)

SpecFiles == InitPool /\ [][NextFiles]_vars

\* Waiting for a worker: up to MaxJobs transcription-only jobs, deleted at any
\* moment
NextQueue ==
    \/ /\ next_id <= MaxJobs
       /\ create_job(DefaultPriority, FALSE, FALSE, FALSE)
    \/ PoolRunFew
    \/ CeleryRunFew
    \/ \E j \in JobIds : delete_job(j)

SpecQueue == Init /\ [][NextQueue]_vars

\* every pipeline run terminates: the worker threads and the Celery workers
\* run, so a run or a waiting work item that can take a step takes one
SpecQueueFair == SpecQueue /\ WF_vars(PoolRunFew \/ CeleryRunFew)

\* Batches: one batch of transcription-only jobs run by the thread pool, its
\* members failing and being deleted at any moment
NextBatch ==
    \/ /\ next_id = 1
       /\ create_batch(FALSE, FALSE, TwoNames)
    \/ PoolRunFew
    \/ PoolBatch
    \/ \E j \in JobIds : delete_job(j)

SpecBatch == InitPool /\ [][NextBatch]_vars

\* the pool threads run: a run that can take a step takes one
SpecBatchFair == SpecBatch /\ WF_vars(PoolRunFew \/ PoolBatch)

\* a run in which every model is registered and every adapter call succeeds
PoolRunOk ==
    \/ start_job_background
    \/ \E j \in JobIds : pool_begin(j)
    \/ \E j \in JobIds : pool_transcribing(j)
    \/ \E j \in JobIds : run_transcription(j, "ok", <<100>>)
    \/ \E j \in JobIds : pool_complete(j)
    \/ \E j \in JobIds : pool_finish(j, "ok")

CeleryRunOk ==
    \/ celery_start
    \/ \E j \in JobIds : celery_begin(j)
    \/ \E j \in JobIds : transcribe_audio_start(j, "ok")
    \/ \E j \in JobIds : transcribe_audio(j, "ok")
    \/ \E j \in JobIds : celery_complete(j)
    \/ \E j \in JobIds : notify_completion(j)

\* Admission: up to MaxJobs transcription-only jobs, single or in a batch, with
\* their priorities, taken up and run by the two executors
NextAdmit ==
    \/ /\ next_id <= MaxJobs
       /\ \E p \in PriorityInputs : create_job(p, FALSE, FALSE, TRUE)
    \/ /\ next_id + 1 <= MaxJobs
       /\ create_batch(FALSE, FALSE, TwoNames)
    \/ PoolRunOk
    \/ \E j \in JobIds : update_batch_progress_commit(j)
    \/ CeleryRunOk

SpecAdmit == Init /\ [][NextAdmit]_vars

\* The queue API: up to MaxQueueJobs transcription-only jobs whose priorities and
\* order are changed while the thread pool runs them
Next ==
    \/ /\ next_id <= MaxQueueJobs
       /\ create_job(DefaultPriority, FALSE, FALSE, TRUE)
    \/ PoolRunOk
    \/ \E j \in JobIds, p \in PriorityRequests : update_job_priority(j, p)
    \/ update_job_priority_commit
    \/ \E ids \in ReorderInputs : batch_reorder_queue(ids)

Spec == InitPool /\ [][Next]_vars

\* ---------------------------------------------------------------- claims

\* C1: once a job's status is completed, failed or cancelled, no step changes
\* the status of that job to a different value (the deletion of the row is
\* not counted as a change of status)
C1_TerminalNeverLeft ==
    [][\A j \in DOMAIN jobs \cap DOMAIN jobs' :
          jobs[j].status \in Terminal => jobs'[j].status = jobs[j].status]_vars

\* C2: a job whose status is terminal carries progress 100 exactly when the
\* status is completed
C2_ProgressHundredIffCompleted ==
    \A j \in DOMAIN jobs :
        jobs[j].status \in Terminal =>
            ((jobs[j].progress = 100) <=> (jobs[j].status = "completed"))

\* (priority, created_at) of job a is lower than that of job b; ids are handed
\* out in creation order
LowerTuple(a, b, t) ==
    \/ t[a].priority < t[b].priority
    \/ t[a].priority = t[b].priority /\ a < b

\* C3: a job taken up by an executor has the lowest (priority, created_at)
\* among the queued jobs: every job left waiting by that step ranks after it
C3_AdmitsLowestTuple ==
    [][\A j \in JobIds :
          (run[j].pc = "idle" /\ run'[j].pc = "begin") =>
              \A k \in DOMAIN jobs' \ {j} :
                  (jobs'[k].status = "queued" /\ run'[k].pc = "idle") => LowerTuple(j, k, jobs')]_vars

\* C4: the number of jobs whose status is an in-progress status never exceeds
\* settings.max_concurrent_jobs
C4_InProgressWithinLimit ==
    Cardinality({j \in DOMAIN jobs : jobs[j].status \in InProgress}) <= max_concurrent_jobs

\* C5: a job deleted (cancelled) while its run was in progress ends with the
\* status cancelled, and a cancelled event has been published for it
C5_RunningCancelEndsCancelled ==
    \A j \in JobIds :
        (cancelled[j] = "running" /\ run[j].pc \in {"done", "dead"}) =>
            /\ Exists(j)
            /\ jobs[j].status = "cancelled"
            /\ [type |-> "cancelled", job |-> j] \in events

\* C6: a job cancelled while its status was queued never enters processing or
\* a stage status, no stage of it is entered, its run never gets past loading
\* the job, and no progress, completion or failure event is published for it
C6_QueuedCancelNeverRuns ==
    \A j \in JobIds :
        cancelled[j] = "queued" =>
            /\ Exists(j) => jobs[j].status \in Reorderable \cup {"cancelled"}
            /\ run[j].pc \in {"idle", "begin", "notfound", "dead"}
            /\ stages[j] = <<>>
            /\ progress_log[j] = NoProgress
            /\ \A e \in events : e.job # j

\* C6 happens: an executor has met a job that was cancelled while queued
C6_Witness ==
    \E j \in JobIds : cancelled[j] = "queued" /\ run[j].pc \in {"notfound", "dead"}

\* C7: a reorder whose list names a missing job or a job that is not queued or
\* pending is rejected, and it changes no job's priority or queue_position
\* and broadcasts nothing
C7_ReorderAllOrNothing ==
    [][\A ids \in ReorderInputs :
          (/\ \E i \in 1..Len(ids) :
                 ids[i] \notin DOMAIN jobs \/ jobs[ids[i]].status \notin Reorderable
           /\ batch_reorder_queue(ids))
          => /\ resp'.code \in {400, 404}
             /\ jobs' = jobs
             /\ events' = events]_vars

\* C7 happens: a reorder was rejected because of a job that is running, while
\* another job is queued
C7_Witness ==
    /\ resp.op = "batch_reorder_queue"
    /\ resp.code = 400
    /\ resp.job \in DOMAIN jobs
    /\ jobs[resp.job].status \in InProgress
    /\ \E k \in DOMAIN jobs : jobs[k].status \in Reorderable

\* C8: a job's priority changes only while its status is queued or pending,
\* and only to a value between 1 and 10
C8_PriorityFixedOnceStarted ==
    [][\A j \in DOMAIN jobs \cap DOMAIN jobs' :
          jobs'[j].priority # jobs[j].priority =>
              /\ jobs[j].status \in Reorderable
              /\ jobs'[j].priority \in MinPriority..MaxPriority]_vars

\* C9: the progress values published for a job never decrease
C9_PublishedProgressNonDecreasing ==
    \A j \in JobIds : progress_log[j].monotone

\* the stages the options o ask for, in order
ExpectedStages(o) ==
    <<"transcribe">>
        \o (IF o.enable_diarization THEN <<"diarize">> ELSE <<>>)
        \o (IF o.enable_tts THEN <<"synthesize">> ELSE <<>>)
        \o (IF o.enable_tts /\ o.sync_tts_timing THEN <<"sync">> ELSE <<>>)

IsPrefix(a, b) == Len(a) <= Len(b) /\ SubSeq(b, 1, Len(a)) = a

\* C10: the stages a job has entered are an initial part of Transcribe,
\* Diarize (iff enable_diarization), Synthesize (iff enable_tts), Sync (iff
\* enable_tts and sync_tts_timing), and a completed job has entered all of them
C10_StagesInOrder ==
    \A j \in DOMAIN jobs :
        /\ IsPrefix(stages[j], ExpectedStages(options[j]))
        /\ jobs[j].status = "completed" => stages[j] = ExpectedStages(options[j])

\* C11: a job one of whose stages raised (an adapter failure included) is
\* never completed, and once its run is over its status is failed
C11_StageFailureFailsJob ==
    \A j \in DOMAIN jobs :
        faults[j] \cap {"engine_error", "raise"} # {} =>
            /\ jobs[j].status # "completed"
            /\ run[j].pc = "done" => jobs[j].status = "failed"

\* C12: a job for which the model of an enabled stage was not registered or
\* not downloaded is never completed, and once its run is over its status is
\* failed
C12_MissingModelFailsJob ==
    \A j \in DOMAIN jobs :
        faults[j] \cap {"no_model", "not_downloaded"} # {} =>
            /\ jobs[j].status # "completed"
            /\ run[j].pc = "done" => jobs[j].status = "failed"


\* C13: downloads are single-flight: for every model id at most one fetch
\* (download_model_for_engine) is in progress at any time, the download queued
\* by register_model included
C13_DownloadSingleFlight ==
    \A t1, t2 \in DOMAIN tasks :
        /\ tasks[t1].pc = "fetching"
        /\ tasks[t2].pc = "fetching"
        /\ tasks[t1].model = tasks[t2].model
        => t1 = t2

\* C14: for every model type at most one registered model is the default,
\* under every interleaving of register, set default and delete
C14_OneDefaultPerType ==
    \A ty \in ModelTypes : Cardinality(DefaultsOf(models, ty)) <= 1

\* C15: no two registered models share the (engine, model_id) pair, concurrent
\* registrations included
C15_UniqueEngineModelId ==
    \A m1, m2 \in DOMAIN models : models[m1].key = models[m2].key => m1 = m2


\* C16: events reach a subscriber in the order their publisher published them,
\* and a finished broadcast has sent its event to every subscriber that was
\* connected from its start to its end, also with concurrent publishers
C16_FifoAndDeliveredToAllLive ==
    /\ \A s \in Sockets : \A i, k \in DOMAIN received[s] :
           i < k /\ received[s][i][1] = received[s][k][1]
               => received[s][i][2] < received[s][k][2]
    /\ missed = {}

\* C17: a broadcast that has started returns, whatever the subscribers do
C17_PublishNeverBlocks ==
    \A p \in Publishers : (bcast[p].pc = "loop") ~> (bcast[p].pc = "idle")


Members(b) == {j \in JobIds : options[j].batch_id = b}
BatchTerminal(b) == batches[b].status \in {"completed", "failed"}

\* C18: for every batch completed_files + failed_files <= total_files, and the
\* batch status is completed or failed exactly when the two sides are equal
C18_BatchCountersAndStatus ==
    \A b \in DOMAIN batches :
        /\ batches[b].completed_files + batches[b].failed_files <= batches[b].total_files
        /\ BatchTerminal(b) <=>
               batches[b].completed_files + batches[b].failed_files = batches[b].total_files

\* every member of batch b has ended its run with its row in a terminal status
AllProcessed(b) ==
    \A j \in Members(b) : Exists(j) /\ run[j].pc = "done" /\ jobs[j].status \in Terminal

\* C19: once the terminal transition of every member has been processed, the
\* counters of the batch are the numbers of completed and of failed members
C19_CountersMatchMembers ==
    \A b \in DOMAIN batches :
        AllProcessed(b) =>
            /\ batches[b].completed_files = CountStatus(jobs, b, "completed")
            /\ batches[b].failed_files = CountStatus(jobs, b, "failed")

\* every member of batch b is terminal or deleted, and no run of a member is
\* under way
AllSettled(b) ==
    \A j \in Members(b) :
        /\ run[j].pc \in {"done", "dead", "notfound"} \/ (run[j].pc = "idle" /\ ~Exists(j))
        /\ Exists(j) => jobs[j].status \in Terminal

\* C20: a batch whose members are all terminal, the deleted ones included,
\* reaches a terminal status
C20_BatchEventuallyTerminal ==
    \A b \in {BatchId} :
        (b \in DOMAIN batches /\ AllSettled(b)) ~> (b \in DOMAIN batches /\ BatchTerminal(b))


\* the summed overlap of speaker sp with the segment of the call
TotalOverlap(sp) ==
    LET RECURSIVE Sum(_)
        Sum(l) == IF l = <<>> THEN 0
                  ELSE (IF Head(l).speaker = sp
                          THEN Overlap(Head(l), diar_call.start, diar_call.end) ELSE 0)
                       + Sum(Tail(l))
    IN Sum(diar_call.diarization)

\* the order of the speaker labels
LabelBefore(a, b) == a = "SPEAKER_00" /\ b = "SPEAKER_01"

\* C21: the speaker returned has the maximal summed overlap with the segment,
\* among the speakers of maximal overlap it is the lowest label, and without a
\* positive overlap no speaker is returned
C21_SpeakerAssignmentLaw ==
    diar_call.speaker # "unset" =>
        IF \A sp \in Speakers : TotalOverlap(sp) = 0
          THEN diar_call.speaker = NoSpeaker
          ELSE /\ diar_call.speaker \in Speakers
               /\ \A sp \in Speakers :
                      /\ TotalOverlap(sp) <= TotalOverlap(diar_call.speaker)
                      /\ TotalOverlap(sp) = TotalOverlap(diar_call.speaker)
                             => ~LabelBefore(sp, diar_call.speaker)


\* C22: for every key the loader has run at most once and every caller got
\* the same model
C22_LoadOnMissSingleFlight ==
    \A key \in CacheKeys :
        /\ Cardinality({x \in mm.loaded : x[1] = key}) <= 1
        /\ Cardinality({x \in mm.returned : x[1] = key}) <= 1


\* the states a download ends in
Present(m) ==
    models[m].is_downloaded /\ models[m].local_path # "" /\ models[m].download_progress = 100
InError(m) == models[m].download_error /\ ~models[m].is_downloaded

\* the downloads of model m: some have run, none is queued or fetching
DownloadsOver(m) ==
    /\ \E t \in DOMAIN tasks : tasks[t].model = m /\ tasks[t].pc \in {"done", "failed"}
    /\ \A t \in DOMAIN tasks : tasks[t].model = m => tasks[t].pc \notin {"queued", "fetching"}

\* C23: once its downloads are over a model is either present (is_downloaded,
\* local_path set, progress 100) or in error (error recorded, not present),
\* never both and never neither
C23_DownloadEndsPresentOrError ==
    \A m \in DOMAIN models : DownloadsOver(m) => (Present(m) /= InError(m))


\* C30: a delete of an existing model removes its registration, whatever
\* happens to the removal of its local files
C30_DeleteRemovesRegistration ==
    [][\A m \in ModelIds, delete_files \in BOOLEAN, removal \in FetchOutcomes :
           (MExists(m) /\ delete_model(m, delete_files, removal)) => m \notin DOMAIN models']_vars


\* the jobs waiting for admission
WaitingJobs(t) == {k \in DOMAIN t : t[k].status \in {"pending", "queued"}}

\* C24: every job an enqueue creates, single or member of a batch, has status
\* queued and the queue position that follows the jobs pending before it, and
\* no two new jobs have the same position
C24_EnqueuePosition ==
    [][LET new == DOMAIN jobs' \ DOMAIN jobs
           pending == Cardinality(WaitingJobs(jobs))
       IN /\ \A j \in new :
                 /\ jobs'[j].status = "queued"
                 /\ jobs'[j].queue_position \in (pending + 1)..(pending + Cardinality(new))
          /\ \A j, k \in new : jobs'[j].queue_position = jobs'[k].queue_position => j = k]_vars


\* C25: an accepted reorder gives the job at position k of the list the
\* priority min(k, 10) and the queue position k, for every position of the
\* list, and changes no job that is not listed
C25_ReorderAssignsPositions ==
    [][\A ids \in ReorderInputs :
          (batch_reorder_queue(ids) /\ resp'.code = 200)
          => /\ \A k \in 1..Len(ids) :
                    /\ jobs'[ids[k]].priority = Min(k, MaxPriority)
                    /\ jobs'[ids[k]].queue_position = k
             /\ \A j \in DOMAIN jobs :
                    (\A k \in 1..Len(ids) : ids[k] # j) => jobs'[j] = jobs[j]]_vars


\* C26: after a chunk is appended, and with an STT that does not raise, a
\* transcript with is_final = true is returned and the buffer cleared when the
\* trailing second is quiet and more than 2 s are buffered; otherwise a
\* transcript with is_final = false is returned and the buffer cleared when more
\* than 5 s are buffered; otherwise nothing is returned and the buffer is kept
C26_StreamFlushRule ==
    [][\A chunk \in Chunks, stt \in SttResults \ {"raise"}, again \in SttResults \ {"raise"} :
          process_audio_chunk(chunk, stt, again) =>
              LET b == stream.audio_buffer \o chunk IN
              IF TrailingQuiet(b) /\ Len(b) > SilenceSeconds
                THEN stream'.audio_buffer = <<>> /\ stream'.returned = Transcript(TRUE)
              ELSE IF Len(b) > ForcedSeconds
                THEN stream'.audio_buffer = <<>> /\ stream'.returned = Transcript(FALSE)
              ELSE stream'.audio_buffer = b /\ stream'.returned = NoEvent]_vars

\* C27: no subscriber silently misses an event while staying subscribed: a
\* subscriber that a finished broadcast did not send its event to, though it
\* was connected and open from the start of the broadcast to its end, is no
\* longer in the subscriber list or has closed
C27_NoSilentMissWhileSubscribed ==
    \A x \in missed : x[1] \notin Connected \/ sockets[x[1]] \in {"closed", "done"}

\* the subscriber list l without the sockets of ss, the others in their order
Without(l, ss) == SelectSeq(l, LAMBDA x : x \notin ss)

\* C28: unsubscribe is idempotent: a call of disconnect, by the handler of the
\* socket or by a broadcast for the sockets whose send failed, leaves the
\* subscriber list without that subscriber and with every other subscriber in
\* place, and leaves the list as it is when the subscriber was removed before
C28_DisconnectIdempotent ==
    [][/\ \A s \in Sockets : disconnect(s) =>
              /\ active_connections' = Without(active_connections, {s})
              /\ s \notin Connected => active_connections' = active_connections
       /\ \A p \in Publishers : broadcast_return(p) =>
              /\ active_connections' = Without(active_connections, bcast[p].disconnected)
              /\ bcast[p].disconnected \cap Connected = {}
                     => active_connections' = active_connections]_vars

\* disconnect has been called twice for a subscriber, by its handler and by a
\* broadcast, while another subscriber is in the list
C28_Witness ==
    \E s \in Sockets : disconnects[s] >= 2 /\ sockets[s] = "done" /\ Connected # {}

C40_OneSubmissionPerChunk ==
    /\ Len(stream.submitted) <= 1
    /\ \A i \in DOMAIN stream.submitted : stream.submitted[i] > 0

\* C38: when a broadcast returns, every subscriber that was in the list with a
\* live socket from the start of the broadcast to its end has been sent the
\* event, whatever connects, disconnects or is dropped in between
C38_NoLiveSubscriberSkipped ==
    [][\A p \in Publishers : broadcast_return(p) =>
          \A s \in bcast[p].live :
              \E i \in DOMAIN received[s] : received[s][i] = <<p, bcast[p].n>>]_vars

\* C39: the first message a queue WebSocket receives is its initial_state
\* snapshot, whatever broadcasts run while it connects
C39_InitialStateFirst ==
    \A s \in Sockets : received[s] # <<>> => received[s][1] = InitialState

\* C32: a broadcast in which a send raised returns with exactly the
\* subscribers whose send raised removed from the list, and with the event sent
\* to every other subscriber that was live from its start to its end
C32_BroadcastBestEffort ==
    [][\A p \in Publishers :
          (bcast[p].disconnected # {} /\ broadcast_return(p)) =>
              /\ active_connections' = Without(active_connections, bcast[p].disconnected)
              /\ \A s \in bcast[p].live \ bcast[p].disconnected :
                     \E i \in DOMAIN received[s] : received[s][i] = <<p, bcast[p].n>>]_vars

\* job j waits for a worker: its work item is in the executor's queue or in
\* the Celery queue
Waiting(j) ==
    \/ \E i \in DOMAIN pool_queue : pool_queue[i] = j
    \/ \E i \in DOMAIN celery_queue : celery_queue[i] = j

\* C31: when every run terminates, every job with status queued leaves that
\* status (it is started, or its row is deleted), and every waiting work item
\* is taken by a worker
C31_QueuedEventuallyAdmitted ==
    \A j \in JobIds :
        /\ (Exists(j) /\ jobs[j].status = "queued") ~> (~Exists(j) \/ jobs[j].status # "queued")
        /\ Waiting(j) ~> ~Waiting(j)

\* with one worker thread, a job that was created while another job held the
\* worker has been started after that job's run died in its except branch, the
\* row of that job having been deleted
C31_Witness ==
    /\ ~celery_available
    /\ max_concurrent_jobs = 1
    /\ \E j, k \in JobIds :
           /\ j # k
           /\ run[k].pc = "dead"
           /\ Exists(j)
           /\ jobs[j].queue_position = 2
           /\ jobs[j].status \notin Reorderable

\* the progress band of the stage a job with this status is in
StageBand(status) ==
    CASE status = "processing" -> 0..5
      [] status = "transcribing" -> 5..60
      [] status = "diarizing" -> 60..75
      [] status = "synthesizing" -> 75..90
      [] status = "syncing" -> 90..99
      [] OTHER -> 0..100

\* C35: the progress value last published for a job that is in a stage lies
\* inside the band of that stage
C35_ProgressInsideStageBand ==
    \A j \in DOMAIN jobs :
        progress_log[j].last # NoProgressValue =>
            progress_log[j].last \in StageBand(jobs[j].status)

\* C36: _check_timeouts unloads a model of a manager only when the last
\* get_model call for its key on that manager is more than the idle timeout
\* ago, and every get_model call sets the key's time of use to the time of the
\* call
C36_EvictedOnlyWhenIdle ==
    [][/\ \A m \in Threads : check_timeouts(m) =>
              \A key \in CacheKeys :
                  (mm.managers[m].models[key] # 0 /\ mm'.managers[m].models[key] = 0) =>
                      /\ mm.managers[m].accessed[key] # NoTime
                      /\ mm.now - mm.managers[m].accessed[key] > IdleTimeout
       /\ \A t \in Threads : get_model(t) =>
              mm'.managers[mm.threads[t].mgr].last_used[mm.threads[t].key] = mm.now]_vars

\* a model that was used again after its load, at a later time, has been unloaded
C36_Witness ==
    \E m \in DOMAIN mm.managers, key \in CacheKeys :
        /\ mm.managers[m].models[key] = 0
        /\ mm.managers[m].accessed[key] > 0
        /\ \E x \in mm.returned : x[1] = key

\* the segments with a file whose samples reach index n - 1 of the track
Covering(n) ==
    {k \in DOMAIN sync_call.segments :
        /\ sync_call.segments[k].exists
        /\ n - 1 >= ToSamples(sync_call.segments[k].start)
        /\ n - 1 < ToSamples(sync_call.segments[k].start) + Len(Resample(sync_call.segments[k]))}

\* C33: in the track combine_with_timing builds, a sample that no segment
\* covers is silent (0), a sample that segments cover holds the value of the
\* last of them in list order, and samples that fall past the end of the track
\* are dropped
C33_LaterSegmentWins ==
    sync_call.done =>
        /\ Len(sync_call.audio_buffer) = ToSamples(sync_call.total_duration)
        /\ \A n \in DOMAIN sync_call.audio_buffer :
               IF Covering(n) = {} THEN sync_call.audio_buffer[n] = 0
               ELSE LET k == CHOOSE x \in Covering(n) : \A y \in Covering(n) : y <= x
                        seg == sync_call.segments[k]
                    IN sync_call.audio_buffer[n] = Resample(seg)[n - ToSamples(seg.start)]

\* a track has been built in which two segments with different samples overlap
\* and a segment reaches past the end of the track
C33_Witness ==
    /\ sync_call.done
    /\ \E n \in DOMAIN sync_call.audio_buffer :
           /\ Covering(n) = {1, 2}
           /\ Resample(sync_call.segments[1])[n - ToSamples(sync_call.segments[1].start)]
                  # Resample(sync_call.segments[2])[n - ToSamples(sync_call.segments[2].start)]
    /\ \E k \in DOMAIN sync_call.segments :
           /\ sync_call.segments[k].exists
           /\ ToSamples(sync_call.segments[k].start) + Len(Resample(sync_call.segments[k]))
                  > Len(sync_call.audio_buffer)

\* seconds * sample_rate rounded to the nearest sample
NearestSample(t) == (2 * t * SampleRate + TimeUnits) \div (2 * TimeUnits)

\* C34: the track has round(T * sample_rate) samples and segment i starts at
\* sample round(start_i * sample_rate)
C34_RoundedSizes ==
    sync_call.done =>
        /\ Len(sync_call.audio_buffer) = NearestSample(sync_call.total_duration)
        /\ \A k \in DOMAIN sync_call.segments :
               sync_call.start_samples[k] = NearestSample(sync_call.segments[k].start)

\* C37: any two distinct jobs have distinct input paths, and their runs read
\* their audio from distinct paths
C37_FilesNeverCollide ==
    \A j, k \in DOMAIN jobs :
        j # k => /\ options[j].original_path # options[k].original_path
                 /\ AudioPath(options[j].original_path) # AudioPath(options[k].original_path)

====
